---- MODULE Spec2Model ----
(***************************************************************************)
(* Model of the BFS translation layer: the SSE (SDMX) client with its      *)
(* process-wide dataflow URL cache, and the PXWEB (tabular) client.        *)
(* Strings are sequences of tokens, so that concatenation, trimming and    *)
(* pattern matching are computed and not assumed.                          *)
(***************************************************************************)
EXTENDS Integers, Sequences, FiniteSets, TLC

\* ------------------------------------------------------------------------
\* Bounds
\* ------------------------------------------------------------------------
\* number of caller-issued requests over one run (they may overlap)
NumReq == 2

\* ------------------------------------------------------------------------
\* Values
\* ------------------------------------------------------------------------
\* null / undefined / absent attribute (of a string-valued place)
None == "<none>"
\* an omitted argument
Undefined == "<undefined>"
\* a default parameter: `arg = value` in a signature
DefaultTo(arg, value) == IF arg = Undefined THEN value ELSE arg
\* the NaN that parseInt and parseFloat return for a text with no leading
\* number; every text of the model parses to a number >= 0
NaN == -1000

baseUrl == "https://disseminate.stats.swiss/rest"
pxwebBaseUrl == "https://www.pxweb.bfs.admin.ch/api/v1"
validLanguages == <<"de", "fr", "it", "en">>
maxRetries == 3
retryStatusCodes == {408, 413, 429, 500, 502, 503, 504}

Range(s) == {s[i] : i \in 1..Len(s)}

\* String.prototype.toLowerCase on the language tokens of the model
toLowerCase(s) ==
  CASE s = "EN" -> "en"
    [] s = "DE" -> "de"
    [] s = "FR" -> "fr"
    [] s = "IT" -> "it"
    [] OTHER -> s

IsSpace(t) == t = " "

RECURSIVE trimStart(_)
trimStart(s) ==
  IF s # <<>> /\ IsSpace(Head(s)) THEN trimStart(Tail(s)) ELSE s

RECURSIVE trimEnd(_)
trimEnd(s) ==
  IF s # <<>> /\ IsSpace(s[Len(s)]) THEN trimEnd(SubSeq(s, 1, Len(s) - 1)) ELSE s

\* String.prototype.trim
trim(s) == trimEnd(trimStart(s))

\* Array.prototype.join
RECURSIVE join(_, _)
join(parts, sep) ==
  IF parts = <<>> THEN <<>>
  ELSE IF Len(parts) = 1 THEN parts[1]
  ELSE parts[1] \o <<sep>> \o join(Tail(parts), sep)

\* a thrown Error and a returned value
Throw(m) == [ok |-> FALSE, val |-> m]
Return(v) == [ok |-> TRUE, val |-> v]

\* validateLanguage: the lowercased code, or a throw
validateLanguage(language) ==
  LET lang == toLowerCase(language)
  IN IF lang \notin Range(validLanguages)
       THEN Throw(<<"Invalid language: ", language, ". Must be one of: de, fr, it, en">>)
       ELSE Return(lang)

\* a formatter that trims and does not test
formatBfsNumberUnchecked(numberBfs) == Return(trim(numberBfs))

\* formatBfsNumber: the trimmed identifier, or a throw when it is falsy
\* (null, undefined and '' are all the empty sequence here)
formatBfsNumber(numberBfs) ==
  IF numberBfs = <<>>
    THEN Throw(<<"BFS number is required">>)
    ELSE Return(trim(numberBfs))

\* ------------------------------------------------------------------------
\* Endpoint resolver (getSseUrl)
\* ------------------------------------------------------------------------
\* `${numberBfs}_${metadata}`
BoolStr(b) == IF b THEN "true" ELSE "false"
\* a key that marks only the metadata purpose
cacheKeyBare(numberBfs, metadata) ==
  IF metadata THEN numberBfs \o <<"_", "true">> ELSE numberBfs

cacheKey(numberBfs, metadata) == numberBfs \o <<"_", BoolStr(metadata)>>

\* first index j >= i with s[j] = t, 0 when there is none
IndexFrom(s, t, i) ==
  LET hits == {j \in i..Len(s) : s[j] = t}
  IN IF hits = {} THEN 0 ELSE CHOOSE j \in hits : \A k \in hits : j <= k

\* a null match
NoMatch == [found |-> FALSE, agencyId |-> <<>>, dataflowId |-> <<>>, version |-> <<>>]

\* /Dataflow=([^:]+):([^(]+)\(([^)]+)\)/ tried at position i of the URN
MatchAt(urn, i) ==
  LET c == IndexFrom(urn, ":", i + 1)
      p == IF c = 0 THEN 0 ELSE IndexFrom(urn, "(", c + 1)
      q == IF p = 0 THEN 0 ELSE IndexFrom(urn, ")", p + 1)
  IN IF urn[i] = "Dataflow=" /\ c > i + 1 /\ p > c + 1 /\ q > p + 1
       THEN [found |-> TRUE,
             agencyId |-> SubSeq(urn, i + 1, c - 1),
             dataflowId |-> SubSeq(urn, c + 1, p - 1),
             version |-> SubSeq(urn, p + 1, q - 1)]
       ELSE NoMatch

\* urn.match(...): the leftmost position where the pattern matches
UrnMatch(urn) ==
  LET hits == {i \in 1..Len(urn) : MatchAt(urn, i).found}
  IN IF hits = {} THEN NoMatch
     ELSE MatchAt(urn, CHOOSE i \in hits : \A k \in hits : i <= k)

\* the loop without its break: the last matching URN wins
RECURSIVE FindLastMatchingUrn(_, _)
FindLastMatchingUrn(dataflowUrns, numberBfs) ==
  IF dataflowUrns = <<>> THEN NoMatch
  ELSE LET match == UrnMatch(dataflowUrns[Len(dataflowUrns)])
       IN IF match.found /\ match.dataflowId = numberBfs
            THEN match
            ELSE FindLastMatchingUrn(SubSeq(dataflowUrns, 1, Len(dataflowUrns) - 1),
                                     numberBfs)

\* the for loop over dataflowUrns with its break
RECURSIVE FindMatchingUrn(_, _)
FindMatchingUrn(dataflowUrns, numberBfs) ==
  IF dataflowUrns = <<>> THEN NoMatch
  ELSE LET match == UrnMatch(Head(dataflowUrns))
       IN IF match.found /\ match.dataflowId = numberBfs
            THEN match
            ELSE FindMatchingUrn(Tail(dataflowUrns), numberBfs)

\* the URL built for the requested purpose
\* a builder that uses the data form for both purposes
BuildSseUrlDataForm(m, metadata) ==
  <<baseUrl, "/data/">> \o m.agencyId \o <<",">> \o m.dataflowId
    \o <<",">> \o m.version \o <<"/">>

BuildSseUrl(m, metadata) ==
  IF metadata
    THEN <<baseUrl, "/dataflow/">> \o m.agencyId \o <<"/">> \o m.dataflowId
           \o <<"/">> \o m.version \o <<"?references=all">>
    ELSE <<baseUrl, "/data/">> \o m.agencyId \o <<",">> \o m.dataflowId
           \o <<",">> \o m.version \o <<"/">>

ResolveError(numberBfs, inner) ==
  Throw(<<"Failed to resolve SSE URL for ">> \o numberBfs \o <<": ">> \o inner)

\* a no-match reported with the message of a failed call
NotFoundMessageOpaque(numberBfs) == <<"fetch failed">>

NotFoundMessage(numberBfs) ==
  <<"Dataset ">> \o numberBfs \o <<" not found in SSE API">>

\* `HTTP ${response.status}: ${await response.text()}`
HttpMessage(resp) == <<"HTTP ", ToString(resp.status), ": ">> \o resp.text

\* response.ok
IsOk(resp) == resp.status >= 200 /\ resp.status <= 299

\* what getSseUrl does with the answer of the dataflow list call:
\* the URL to return, or the Error to throw.  An answer is
\* [kind, status, text, body]: kind "throw" is a rejected fetch (text is its
\* message), kind "http" a response; body.shape "invalid" is a payload that
\* does not parse, "empty" one without the expected root
\* a resolver that falls back to the bare dataflow list URL when it fails
ResolveOutcomeFallback(resp, numberBfs, metadata) ==
  LET references == IF resp.body.shape = "ok" THEN resp.body.references ELSE <<>>
      matchingUrn == FindMatchingUrn(references, numberBfs)
  IN IF resp.kind = "http" /\ IsOk(resp) /\ matchingUrn.found
       THEN Return(BuildSseUrl(matchingUrn, metadata))
       ELSE Return(<<baseUrl, "/dataflow">>)

ResolveOutcome(resp, numberBfs, metadata) ==
  IF resp.kind = "throw" THEN ResolveError(numberBfs, resp.text)
  ELSE IF ~IsOk(resp) THEN ResolveError(numberBfs, HttpMessage(resp))
  ELSE IF resp.body.shape = "invalid"
    THEN ResolveError(numberBfs, <<"Unexpected token in JSON">>)
  ELSE LET references == IF resp.body.shape = "empty" THEN <<>> ELSE resp.body.references
           matchingUrn == FindMatchingUrn(references, numberBfs)
       IN IF ~matchingUrn.found
            THEN ResolveError(numberBfs, NotFoundMessage(numberBfs))
            ELSE Return(BuildSseUrl(matchingUrn, metadata))

\* a resolver that does not store the URL
CacheSetDropped(c, key, url) == c

\* a resolver that replaces the map by the new entry
CacheSetAlone(c, key, url) == [k \in {key} |-> url]

\* dataflowUrlCache.set(cacheKey, url)
CacheSet(c, key, url) ==
  [k \in DOMAIN c \cup {key} |-> IF k = key THEN url ELSE c[k]]

\* ------------------------------------------------------------------------
\* Metadata normalizer (getSseMetadata)
\* ------------------------------------------------------------------------
\* parseInt on the position texts of the model
parseInt(s) ==
  CASE s = "0" -> 0
    [] s = "1" -> 1
    [] s = "2" -> 2
    [] s = "3" -> 3
    [] OTHER -> NaN

\* names.find(n => n.$?.['xml:lang'] === lang): its index, 0 when none
FindLang(names, lang) ==
  LET hits == {i \in 1..Len(names) : names[i].lang = lang}
  IN IF hits = {} THEN 0 ELSE CHOOSE i \in hits : \A k \in hits : i <= k

\* x || y on texts: None and '' are falsy
OrElse(x, y) == IF x = None \/ x = "" THEN y ELSE x

\* a normaliser that falls back to the id when the language is absent
LabelOrId(names, lang, id) ==
  LET i == FindLang(names, lang)
  IN IF i # 0 THEN OrElse(names[i].text, id) ELSE id

\* the name in the requested language, else the first name, else the id
Label(names, lang, id) ==
  LET i == FindLang(names, lang)
  IN IF i # 0 THEN OrElse(names[i].text, id)
     ELSE IF Len(names) > 0 THEN OrElse(names[1].text, id)
     ELSE id

\* codelistMap[ref] / codelistNames[ref]: the object written by a loop over
\* the codelists, so the last codelist carrying the id is the one found
LastCodelist(codelists, ref) ==
  LET hits == {i \in 1..Len(codelists) : codelists[i].id = ref}
  IN IF hits = {} THEN 0 ELSE CHOOSE i \in hits : \A k \in hits : i >= k

\* the rows one dimension contributes: one per code of its codelist, none
\* when it has no codelist reference or the reference resolves to nothing
DimRows(dim, codelists, lang) ==
  LET ci == IF dim.codelistRef = None THEN 0
            ELSE LastCodelist(codelists, dim.codelistRef)
  IN IF ci = 0 THEN <<>>
     ELSE LET cl == codelists[ci]
              codelistText == OrElse(Label(cl.names, lang, cl.id), dim.id)
          IN [k \in 1..Len(cl.codes) |->
                [code |-> dim.id,
                 text |-> codelistText,
                 value |-> cl.codes[k].id,
                 valueText |-> Label(cl.codes[k].names, lang, cl.codes[k].id),
                 position_dimension |-> parseInt(OrElse(dim.position, "0"))]]

\* the loop over dimInfo that fills `dimensions`
RECURSIVE Dimensions(_, _, _)
Dimensions(dimensionList, codelists, lang) ==
  IF dimensionList = <<>> THEN <<>>
  ELSE DimRows(Head(dimensionList), codelists, lang)
         \o Dimensions(Tail(dimensionList), codelists, lang)

MetadataError(bfsNum, inner) ==
  Throw(<<"Failed to fetch SSE metadata for ">> \o bfsNum \o <<": ">> \o inner)

\* a normaliser that takes a failed fetch for a structure without dimensions
MetadataOutcomeLenient(resp, bfsNum, lang) ==
  IF resp.kind = "throw" \/ ~IsOk(resp) \/ resp.body.shape # "ok" THEN Return(<<>>)
  ELSE Return(Dimensions(resp.body.dims, resp.body.codelists, lang))

\* what getSseMetadata does with the answer of the metadata fetch
MetadataOutcome(resp, bfsNum, lang) ==
  IF resp.kind = "throw" THEN MetadataError(bfsNum, resp.text)
  ELSE IF ~IsOk(resp) THEN MetadataError(bfsNum, HttpMessage(resp))
  ELSE IF resp.body.shape = "invalid"
    THEN MetadataError(bfsNum, <<"Non-whitespace before first tag.">>)
  ELSE IF resp.body.shape = "empty" THEN Return(<<>>)
  ELSE Return(Dimensions(resp.body.dims, resp.body.codelists, lang))

\* ------------------------------------------------------------------------
\* Query builder of the time-series backend (getSseData)
\* ------------------------------------------------------------------------
\* [...new Set(metadata.map(m => m.code))]: first occurrences, in order
RECURSIVE UniqueCodes(_, _)
UniqueCodes(metadata, seen) ==
  IF metadata = <<>> THEN <<>>
  ELSE IF Head(metadata).code \in seen THEN UniqueCodes(Tail(metadata), seen)
  ELSE <<Head(metadata).code>>
         \o UniqueCodes(Tail(metadata), seen \cup {Head(metadata).code})

\* metadata.find(m => m.code === a)?.position_dimension || 0
PosOf(metadata, a) ==
  LET hits == {i \in 1..Len(metadata) : metadata[i].code = a}
      i == CHOOSE i \in hits : \A k \in hits : i <= k
  IN IF hits = {} \/ metadata[i].position_dimension = NaN
       THEN 0 ELSE metadata[i].position_dimension

\* the codes left in the order of the metadata rows
SortCodesDeclared(codes, metadata) == codes

\* Array.prototype.sort with the comparator posA - posB (a stable sort)
RECURSIVE SortCodes(_, _)
SortCodes(codes, metadata) ==
  IF codes = <<>> THEN <<>>
  ELSE LET rest == SortCodes(SubSeq(codes, 1, Len(codes) - 1), metadata)
           x == codes[Len(codes)]
           n == Cardinality({i \in 1..Len(rest) :
                              PosOf(metadata, rest[i]) <= PosOf(metadata, x)})
       IN SubSeq(rest, 1, n) \o <<x>> \o SubSeq(rest, n + 1, Len(rest))

orderedCodes(metadata) == SortCodes(UniqueCodes(metadata, {}), metadata)

\* A filter is a sequence of [code, arr, vals, str]: the entries of the
\* query object in key order; arr tells an array (its elements in vals) from
\* a bare string (in str).
NoEntry == [code |-> None, arr |-> FALSE, vals |-> <<>>, str |-> ""]

\* a lookup that takes the first entry of the filter, whatever its key
LookupFirst(query, dim) ==
  IF query = <<>> THEN NoEntry ELSE query[1]

\* query[dim]
Lookup(query, dim) ==
  LET hits == {i \in 1..Len(query) : query[i].code = dim}
  IN IF hits = {} THEN NoEntry ELSE query[CHOOSE i \in hits : TRUE]

\* truthiness of query[dim]: undefined and '' are falsy, any array is truthy
Truthy(e) == e.code # None /\ (e.arr \/ e.str # "")

\* a bare value not wrapped into a list
AsArrayUnwrapped(e) == e.vals

\* Array.isArray(values) ? values : [values]
AsArray(e) == IF e.arr THEN e.vals ELSE <<e.str>>

\* the text of a token sequence: empty-string tokens vanish
Text(s) == SelectSeq(s, LAMBDA t : t # "")

\* one element of urlParts
UrlPart(query, dim) ==
  LET e == Lookup(query, dim)
      values == AsArray(e)
  IN IF Truthy(e) THEN Text(join([i \in 1..Len(values) |-> <<values[i]>>], "+"))
     ELSE <<>>

\* the path segment: 'all', or the parts joined with '.'
UrlQuery(metadata, hasQuery, query) ==
  LET codes == orderedCodes(metadata)
      urlParts == [i \in 1..Len(codes) |-> UrlPart(query, codes[i])]
  IN IF hasQuery /\ \E i \in 1..Len(urlParts) : urlParts[i] # <<>>
       THEN join(urlParts, ".")
       ELSE <<"all">>

\* the query parameters joined with '&'
QueryParams(startPeriod, endPeriod) ==
  LET p1 == <<<<"dimensionAtObservation=AllDimensions">>>>
      p2 == IF OrElse(startPeriod, None) # None
              THEN Append(p1, <<"startPeriod=", startPeriod>>) ELSE p1
      p3 == IF OrElse(endPeriod, None) # None
              THEN Append(p2, <<"endPeriod=", endPeriod>>) ELSE p2
  IN join(p3, "&")

\* `${dataUrl}${urlQuery}?${queryParams.join('&')}`
DataFetchUrl(dataUrl, urlQuery, startPeriod, endPeriod) ==
  dataUrl \o urlQuery \o <<"?">> \o QueryParams(startPeriod, endPeriod)

\* ------------------------------------------------------------------------
\* Observation normalizer (getSseData)
\* ------------------------------------------------------------------------
\* parseFloat on the value texts of the model, in tenths
parseFloat(s) ==
  CASE s = "0" -> 0
    [] s = "100.5" -> 1005
    [] s = "42" -> 420
    [] OTHER -> NaN

\* a lookup that matches on the value code alone
ResolveByValue(metadata, dimId, dimValue) ==
  LET hits == {i \in 1..Len(metadata) : metadata[i].value = dimValue}
  IN IF hits = {} THEN dimValue
     ELSE OrElse(metadata[CHOOSE i \in hits : \A k \in hits : i <= k].valueText, dimValue)

\* metadata.find(m => m.code === dimId && m.value === dimValue)?.valueText || dimValue
Resolve(metadata, dimId, dimValue) ==
  LET hits == {i \in 1..Len(metadata) :
                 metadata[i].code = dimId /\ metadata[i].value = dimValue}
  IN IF hits = {} THEN dimValue
     ELSE OrElse(metadata[CHOOSE i \in hits : \A k \in hits : i <= k].valueText, dimValue)

\* obsData after the loop over obsKeys: for every key id the value resolved
\* for its last occurrence (a later assignment replaces the earlier one)
ObsDims(metadata, obsKeys) ==
  LET ids == {obsKeys[i].id : i \in 1..Len(obsKeys)}
      last(id) == CHOOSE i \in 1..Len(obsKeys) :
                    /\ obsKeys[i].id = id
                    /\ \A k \in 1..Len(obsKeys) : obsKeys[k].id = id => k <= i
  IN [id \in ids |-> Resolve(metadata, id, obsKeys[last(id)].value)]

\* a normaliser that tests the parsed number instead of the text
MeasureOfNumber(obsValue) ==
  IF OrElse(obsValue, None) = None \/ parseFloat(obsValue) = 0
    THEN [isNull |-> TRUE, num |-> 0]
    ELSE [isNull |-> FALSE, num |-> parseFloat(obsValue)]

\* obsValue ? parseFloat(obsValue) : null
Measure(obsValue) ==
  IF OrElse(obsValue, None) = None THEN [isNull |-> TRUE, num |-> 0]
  ELSE [isNull |-> FALSE, num |-> parseFloat(obsValue)]

ObsData(metadata, observation) ==
  [dims |-> ObsDims(metadata, observation.keys), value |-> Measure(observation.obsValue)]

\* the two nested loops over dataSets and their generic:Obs
RECURSIVE Observations(_, _)
Observations(metadata, dataSets) ==
  IF dataSets = <<>> THEN <<>>
  ELSE [i \in 1..Len(Head(dataSets)) |-> ObsData(metadata, Head(dataSets)[i])]
         \o Observations(metadata, Tail(dataSets))

\* the texts of the model of which another text of the model is a proper part
Substrings ==
  { <<"No records found for the specified query", "No records found">>,
    <<"<Error>NoRecordsFound</Error>", "NoRecordsFound">>,
    <<"px-x-1429", "429">> }

\* text.includes(part)
Contains(text, part) == text = part \/ <<text, part>> \in Substrings

\* error.message.includes(needle): the needle lies within one text of the message
Includes(msg, needle) == \E i \in 1..Len(msg) : Contains(msg[i], needle)

\* the catch block of the data fetch
DataError(bfsNum, inner) ==
  IF Includes(inner, "NoRecordsFound")
    THEN Throw(<<"No records found for the specified query">>)
    ELSE Throw(<<"Failed to fetch SSE data for ">> \o bfsNum \o <<": ">> \o inner)

\* a client that reports a payload without observations as a failure
DataOutcomeNonEmpty(resp, bfsNum, metadata) ==
  IF resp.kind = "throw" THEN DataError(bfsNum, resp.text)
  ELSE IF ~IsOk(resp) THEN DataError(bfsNum, HttpMessage(resp))
  ELSE IF resp.body.shape = "invalid"
    THEN DataError(bfsNum, <<"Non-whitespace before first tag.">>)
  ELSE IF resp.body.shape = "empty" \/ Observations(metadata, resp.body.dataSets) = <<>>
    THEN DataError(bfsNum, <<"NoRecordsFound">>)
  ELSE Return(Observations(metadata, resp.body.dataSets))

\* what getSseData does with the answer of the data fetch
DataOutcome(resp, bfsNum, metadata) ==
  IF resp.kind = "throw" THEN DataError(bfsNum, resp.text)
  ELSE IF ~IsOk(resp) THEN DataError(bfsNum, HttpMessage(resp))
  ELSE IF resp.body.shape = "invalid"
    THEN DataError(bfsNum, <<"Non-whitespace before first tag.">>)
  ELSE IF resp.body.shape = "empty" THEN Return(<<>>)
  ELSE Return(Observations(metadata, resp.body.dataSets))

\* the tip of the get_sse_data tool
SseDataTip ==
  <<"\n\nTip: Check your query filters and time period. The dataset may not have data for the specified criteria.">>

\* the get_sse_data tool on the outcome of getSseData: the observations and
\* their number, or the error text with the tip for 'No records found'
GetSseDataTool(out) ==
  IF out.ok
    THEN [isError |-> FALSE, text |-> <<>>,
          totalObservations |-> Len(out.val), data |-> out.val]
    ELSE [isError |-> TRUE,
          text |-> <<"Error getting SSE data: ">> \o out.val
                     \o (IF Includes(out.val, "No records found")
                           THEN SseDataTip ELSE <<>>),
          totalObservations |-> 0, data |-> <<>>]

\* ------------------------------------------------------------------------
\* PXWEB client (getMetadata, getData)
\* ------------------------------------------------------------------------
\* `${config.pxwebBaseUrl}/${lang}/${bfsNum}/${bfsNum}.px`
PxUrl(lang, bfsNum) ==
  <<pxwebBaseUrl, "/", lang, "/">> \o bfsNum \o <<"/">> \o bfsNum \o <<".px">>

PxMetadataError(bfsNum, inner) ==
  Throw(<<"Failed to fetch metadata for ">> \o bfsNum \o <<": ">> \o inner)

PxDataError(bfsNum, inner) ==
  Throw(<<"Failed to fetch data for ">> \o bfsNum \o <<": ">> \o inner)

\* the message of the HTTPError / network error ky rejects with
KyMessage(resp) ==
  IF resp.kind = "throw" THEN resp.text
  ELSE IF ~IsOk(resp) THEN <<"Request failed with status code ", ToString(resp.status)>>
  ELSE <<"Unexpected token in JSON">>

\* a retry decision that does not look at the status
KyRetriesAnyStatus(resp, attempt) ==
  /\ attempt <= maxRetries
  /\ \/ resp.kind = "throw" /\ resp.text # <<"Request timed out">>
     \/ resp.kind = "http"

\* ky's retry decision after attempt number `attempt` (the first is 1)
KyRetries(resp, attempt) ==
  /\ attempt <= maxRetries
  /\ \/ resp.kind = "throw" /\ resp.text # <<"Request timed out">>
     \/ resp.kind = "http" /\ resp.status \in retryStatusCodes

\* a response ky resolves with: a success status and a body .json() parses
KyOk(resp) == resp.kind = "http" /\ IsOk(resp) /\ resp.body.shape # "invalid"

\* the payload with the default format in place of the requested one
AllPayloadDefaultFormat(variables, format) ==
  [query |-> [i \in 1..Len(variables) |->
                [code |-> variables[i].code,
                 selection |-> [filter |-> "all", values |-> <<"*">>]]],
   response |-> [format |-> "json-stat"]]

\* the payload of the query === null branch
AllPayload(variables, format) ==
  [query |-> [i \in 1..Len(variables) |->
                [code |-> variables[i].code,
                 selection |-> [filter |-> "all", values |-> <<"*">>]]],
   response |-> [format |-> format]]

\* the payload of the else branch: Object.entries(query).map(...)
ItemPayload(query, format) ==
  [query |-> [i \in 1..Len(query) |->
                [code |-> query[i].code,
                 selection |-> [filter |-> "item", values |-> AsArray(query[i])]]],
   response |-> [format |-> format]]

NoPayload == [query |-> <<>>, response |-> [format |-> None]]

\* queryPayload, or the TypeError of metadata.variables.map when the
\* metadata document has no variables array
QueryPayload(metadata, hasQuery, query, format) ==
  IF ~hasQuery
    THEN IF metadata.shape = "empty"
           THEN Throw(<<"Cannot read properties of undefined (reading 'map')">>)
           ELSE Return(AllPayload(metadata.variables, format))
    ELSE Return(ItemPayload(query, format))

\* ------------------------------------------------------------------------
\* The upstream: the answers each backend may give to one call
\* ------------------------------------------------------------------------
HttpError(status, text) ==
  [kind |-> "http", status |-> status, text |-> text, body |-> [shape |-> "invalid"]]
NetError(text) ==
  [kind |-> "throw", status |-> 0, text |-> text, body |-> [shape |-> "invalid"]]
HttpOk(body) == [kind |-> "http", status |-> 200, text |-> <<>>, body |-> body]

Urn(agency, id, version) ==
  <<"urn:sdmx:org.sdmx.infomodel.datastructure.", "Dataflow=">>
    \o agency \o <<":">> \o id \o <<"(">> \o version \o <<")">>

\* dataflow lists: DF1 declared twice (two agencies), an entry without a
\* version, and a list that changed between two calls; the call can also be
\* answered with an error status or be rejected
DataflowsA ==
  <<Urn(<<"BFS">>, <<"DF1">>, <<"1.0">>), Urn(<<"OFS">>, <<"DF1">>, <<"2.0">>),
    Urn(<<"BFS">>, <<"DF2">>, <<"1.0">>),
    Urn(<<"BFS">>, <<"DF1", "_", "true">>, <<"1.0">>)>>
DataflowsB ==
  <<<<"urn:sdmx:org.sdmx.infomodel.datastructure.", "Dataflow=", "BFS", ":", "DF1">>,
    Urn(<<"OFS">>, <<"DF1">>, <<"2.0">>), Urn(<<"BFS">>, <<"DF1">>, <<"1.0">>)>>

DataflowAnswers ==
  { HttpOk([shape |-> "ok", references |-> DataflowsA]),
    HttpOk([shape |-> "ok", references |-> DataflowsB]),
    HttpError(500, <<"Internal Server Error">>),
    NetError(<<"fetch failed">>) }

Name(lang, text) == [lang |-> lang, text |-> text]
Code(id, names) == [id |-> id, names |-> names]
Dim(id, position, codelistRef) ==
  [id |-> id, position |-> position, codelistRef |-> codelistRef]
Codelist(id, names, codes) == [id |-> id, names |-> names, codes |-> codes]

CL_GEO ==
  Codelist("CL_GEO", <<Name("en", "Geography")>>,
           <<Code("CH", <<Name("en", "Switzerland"), Name("de", "Schweiz")>>),
             Code("ZH", <<Name("de", "Zuerich")>>)>>)
CL_SEX ==
  Codelist("CL_SEX", <<>>, <<Code("F", <<>>), Code("M", <<Name("en", "")>>)>>)

\* GEO at position 1 and SEX at position 0
StructureA ==
  [shape |-> "ok",
   dims |-> <<Dim("GEO", "1", "CL_GEO"), Dim("SEX", "0", "CL_SEX")>>,
   codelists |-> <<CL_GEO, CL_SEX>>]
\* a dimension without codelist in front of GEO
StructureB ==
  [shape |-> "ok",
   dims |-> <<Dim("YEAR", "0", None), Dim("GEO", "1", "CL_GEO")>>,
   codelists |-> <<CL_GEO>>]

MetadataAnswers ==
  { HttpOk(StructureA),
    HttpError(404, <<"Not Found">>) }

Key(id, value) == [id |-> id, value |-> value]
Obs(keys, obsValue) == [keys |-> keys, obsValue |-> obsValue]

DataAnswers ==
  { HttpOk([shape |-> "ok",
            dataSets |-> << <<Obs(<<Key("GEO", "CH")>>, "100.5"),
                              Obs(<<Key("GEO", "XX")>>, None)>> >>]),
    HttpError(404, <<"NoRecordsFound">>) }

\* a variable of a tabular metadata document; `absent` names the fields the
\* upstream left out (they are undefined to the code)
Variable(code, text, values) ==
  [code |-> code, text |-> text, values |-> values, valueTexts |-> values,
   time |-> FALSE, elimination |-> FALSE, absent |-> {}]
Without(variable, fields) == [variable EXCEPT !.absent = fields]

\* a tabular metadata document; an absent title, date, source or note is None
PxDocument(title, variables) ==
  [shape |-> "ok", title |-> title, updated |-> None, source |-> None,
   note |-> None, variables |-> variables]
\* a document without a variables array
PxNoVariables ==
  [shape |-> "empty", title |-> None, updated |-> None, source |-> None,
   note |-> None, variables |-> <<>>]

PxMetadataA ==
  PxDocument("Population",
             <<Variable("Jahr", "Year", <<"2020", "2021">>),
               Variable("Region", "Region", <<"CH", "ZH">>)>>)

PxMetadataB == PxDocument(None, <<Variable("Region", "Region", <<"CH">>)>>)

PxMetadataAnswers ==
  { HttpOk(PxMetadataA), HttpOk(PxMetadataB),
    HttpOk(PxNoVariables),
    HttpError(404, <<"Not Found">>),
    HttpError(503, <<"Service Unavailable">>) }

PxDataAnswers ==
  { HttpOk([shape |-> "ok", json |-> "dataset"]),
    HttpError(429, <<"Too Many Requests">>),
    HttpError(400, <<"Bad Request">>) }

\* ------------------------------------------------------------------------
\* Tool handlers: what each makes of the outcome of its client call
\* ------------------------------------------------------------------------
\* the tip of the get_statistical_data tool
RateLimitTip ==
  <<"\n\nTip: You may be hitting rate limits. Try adding a delay or querying specific dimensions instead of all data.">>

\* a handler that answers a failure with an empty result
ToolFailureSwallowed(prefix, message, tip) == [isError |-> FALSE, text |-> <<>>]

\* the catch block of a handler
ToolFailure(prefix, message, tip) ==
  [isError |-> TRUE, text |-> <<prefix>> \o message \o tip]

\* the returned content of a handler whose call succeeded
ToolSuccess(data) == [isError |-> FALSE, text |-> <<>>, data |-> data]

\* get_statistical_data: the response document as it is, or the error text
\* with the tip when the message includes '429'
GetStatisticalDataTool(out) ==
  IF out.ok THEN ToolSuccess(out.val)
  ELSE ToolFailure("Error getting statistical data: ", out.val,
                   IF Includes(out.val, "429") THEN RateLimitTip ELSE <<>>)

\* array.slice(0, n)
Slice(array, n) == SubSeq(array, 1, IF Len(array) < n THEN Len(array) ELSE n)

\* a field of a variable: its value, or the default when the field is absent
\* (an empty array is truthy, so `values || []` replaces only an absent one)
Field(variable, name, value, default) ==
  IF name \in variable.absent THEN default ELSE value

\* one entry of formattedMetadata.variables
FormattedVariable(variable) ==
  [code |-> variable.code,
   text |-> Field(variable, "text", variable.text, None),
   valueCount |-> Len(Field(variable, "values", variable.values, <<>>)),
   values |-> Field(variable, "values", variable.values, <<>>),
   valueTexts |-> Field(variable, "valueTexts", variable.valueTexts, <<>>),
   time |-> Field(variable, "time", variable.time, FALSE),
   elimination |-> Field(variable, "elimination", variable.elimination, FALSE)]

\* get_dataset_metadata: the document with its defaults filled in
GetDatasetMetadataTool(out) ==
  IF out.ok
    THEN LET metadata == out.val[1]
         IN ToolSuccess(
              [title |-> OrElse(metadata.title, "Untitled"),
               updated |-> OrElse(metadata.updated, "N/A"),
               source |-> OrElse(metadata.source, "BFS"),
               note |-> OrElse(metadata.note, None),
               variables |-> [i \in 1..Len(metadata.variables) |->
                                FormattedVariable(metadata.variables[i])]])
    ELSE ToolFailure("Error getting dataset metadata: ", out.val, <<>>)

\* one entry of the dimensions of get_dataset_dimensions
SampledVariable(variable) ==
  LET values == Field(variable, "values", variable.values, <<>>)
  IN [code |-> variable.code,
      name |-> Field(variable, "text", variable.text, None),
      isTime |-> Field(variable, "time", variable.time, FALSE),
      valueCount |-> Len(values),
      sampleValues |-> Slice(values, 5),
      sampleValueTexts |->
        Slice(Field(variable, "valueTexts", variable.valueTexts, <<>>), 5),
      note |-> IF Len(values) > 5
                 THEN <<"... and ", ToString(Len(values) - 5), " more values">>
                 ELSE <<>>]

\* get_dataset_dimensions: the short view of the variables
GetDatasetDimensionsTool(out) ==
  IF out.ok
    THEN LET metadata == out.val[1]
         IN ToolSuccess(
              [datasetTitle |-> metadata.title,
               totalDimensions |-> Len(metadata.variables),
               dimensions |-> [i \in 1..Len(metadata.variables) |->
                                 SampledVariable(metadata.variables[i])]])
    ELSE ToolFailure("Error getting dataset dimensions: ", out.val, <<>>)

\* the rows of one dimension, as {value, valueText}
RECURSIVE ValuesOf(_, _)
ValuesOf(metadata, code) ==
  IF metadata = <<>> THEN <<>>
  ELSE (IF Head(metadata).code = code
          THEN <<[value |-> Head(metadata).value, valueText |-> Head(metadata).valueText]>>
          ELSE <<>>) \o ValuesOf(Tail(metadata), code)

\* the `text` of the first row of a dimension
TextOf(metadata, code) ==
  metadata[CHOOSE i \in 1..Len(metadata) :
             /\ metadata[i].code = code
             /\ \A k \in 1..(i - 1) : metadata[k].code # code].text

\* get_sse_metadata: the rows grouped by dimension code, in the order in
\* which the codes first occur
GetSseMetadataTool(out) ==
  IF out.ok
    THEN LET codes == UniqueCodes(out.val, {})
         IN ToolSuccess(
              [totalDimensions |-> Len(codes),
               dimensions |-> [i \in 1..Len(codes) |->
                                 [code |-> codes[i],
                                  text |-> TextOf(out.val, codes[i]),
                                  values |-> ValuesOf(out.val, codes[i])]]])
    ELSE ToolFailure("Error getting SSE metadata: ", out.val, <<>>)

\* the handler of a tool on the outcome of the client call it awaits
ToolResult(tool, out) ==
  CASE tool = "get_statistical_data" -> GetStatisticalDataTool(out)
    [] tool = "get_sse_data" -> GetSseDataTool(out)
    [] tool = "get_dataset_metadata" -> GetDatasetMetadataTool(out)
    [] tool = "get_dataset_dimensions" -> GetDatasetDimensionsTool(out)
    [] tool = "get_sse_metadata" -> GetSseMetadataTool(out)

\* ------------------------------------------------------------------------
\* The callers: the arguments a request may carry
\* ------------------------------------------------------------------------
Entry(code, vals) == [code |-> code, arr |-> TRUE, vals |-> vals, str |-> ""]
Scalar(code, str) == [code |-> code, arr |-> FALSE, vals |-> <<>>, str |-> str]

SseIds == {<<"DF1">>, <<" ", "DF1", " ">>, <<"DF1", "_", "true">>, <<>>}
\* a dataset, a dataset whose number holds the digits 429, and no identifier
PxIds == {<<"px-x-1">>, <<"px-x-1429">>, <<" ", " ">>, <<>>}
\* a language in upper case, the omitted argument, a language that is not
\* offered, null and ''
Languages == {"EN", Undefined, "es", None, ""}
\* the same for the SSE client, with one accepted language per operation
SseMetadataLanguages == Languages \ {"EN"}
SseDataLanguages == Languages \ {Undefined}
\* [has, q]: has = FALSE is the null / omitted filter
Filter(q) == [has |-> TRUE, q |-> q]
NoFilter == [has |-> FALSE, q |-> <<>>]
SseQueries == { Filter(<<Entry("GEO", <<"CH", "ZH">>)>>) }
PxQueries ==
  { NoFilter,
    Filter(<<>>),
    Filter(<<Scalar("Region", "CH"), Entry("Jahr", <<"2020", "2021">>)>>),
    Filter(<<Scalar("Jahr", "2020")>>),
    Filter(<<Entry("Region", <<>>)>>),
    Filter(<<Entry("Kanton", <<"ZH">>), Scalar("Jahr", "")>>) }
Formats == {"json-stat", "csv"}
Periods == {None}

\* ------------------------------------------------------------------------
\* Inputs for the functions applied on their own
\* ------------------------------------------------------------------------
\* URNs the pattern has to take apart: an id with a colon in it, an empty
\* agency, the literal twice
DataflowsC ==
  <<<<"Dataflow=", ":", "DF1", "(", "1.0", ")">>,
    <<"Dataflow=", "BFS", ":", "DF1", ":", "x", "(", "1.0", ")">>,
    <<"Dataflow=", "Dataflow=", "BFS", ":", "DF2", "(", "3.0", ")", ")">>,
    <<"Dataflow=", "BFS", ":", "DF1", "(", ")">>,
    Urn(<<"CH1">>, <<"DF1">>, <<"1.1">>)>>

FnDataflowAnswers ==
  { HttpOk([shape |-> "ok", references |-> DataflowsA]),
    HttpOk([shape |-> "ok", references |-> DataflowsB]),
    HttpOk([shape |-> "ok", references |-> DataflowsC]),
    HttpOk([shape |-> "ok", references |-> <<>>]),
    HttpOk([shape |-> "empty", references |-> <<>>]),
    HttpOk([shape |-> "invalid", references |-> <<>>]),
    HttpError(500, <<"Internal Server Error">>),
    HttpError(404, <<"Dataset ", "DF3", " not found in SSE API">>),
    NetError(<<"fetch failed">>),
    NetError(<<"The operation was aborted due to timeout">>) }

FnIds == {<<"DF1">>, <<"DF2">>, <<"DF3">>, <<"DF1", ":", "x">>}

CL_AB ==
  Codelist("CL_AB", <<Name("en", "Letters")>>,
           <<Code("A", <<Name("en", "Alpha")>>), Code("B", <<>>)>>)
CL_EMPTY == Codelist("CL_EMPTY", <<>>, <<>>)

\* three dimensions at positions 0, 1, 2
Structure3 ==
  [shape |-> "ok",
   dims |-> <<Dim("D0", "0", "CL_AB"), Dim("D1", "1", "CL_AB"), Dim("D2", "2", "CL_AB")>>,
   codelists |-> <<CL_AB>>]
\* the same, declared in another order
Structure3r ==
  [shape |-> "ok",
   dims |-> <<Dim("D2", "2", "CL_AB"), Dim("D0", "0", "CL_AB"), Dim("D1", "1", "CL_AB")>>,
   codelists |-> <<CL_AB>>]
\* a dimension whose codelist has no codes, between two that have
StructureE ==
  [shape |-> "ok",
   dims |-> <<Dim("D0", "0", "CL_AB"), Dim("D1", "1", "CL_EMPTY"), Dim("D2", "2", "CL_AB")>>,
   codelists |-> <<CL_AB, CL_EMPTY>>]
\* an absent and a malformed position attribute
StructureP ==
  [shape |-> "ok",
   dims |-> <<Dim("D1", "1", "CL_AB"), Dim("D0", None, "CL_AB")>>,
   codelists |-> <<CL_AB>>]
StructureX ==
  [shape |-> "ok",
   dims |-> <<Dim("D1", "1", "CL_AB"), Dim("D0", "x", "CL_AB")>>,
   codelists |-> <<CL_AB>>]

FnStructures ==
  {StructureA, StructureB, Structure3, Structure3r, StructureE, StructureP, StructureX}

FnLanguages == {"en", "de"}

FnQueries ==
  { NoFilter,
    Filter(<<>>),
    Filter(<<Entry("D1", <<"A", "B">>)>>),
    Filter(<<Scalar("D1", "A")>>),
    Filter(<<Entry("D2", <<"B">>), Entry("D0", <<"A">>)>>),
    Filter(<<Entry("D1", <<>>)>>),
    Filter(<<Scalar("D1", "")>>),
    Filter(<<Entry("GEO", <<"CH">>)>>),
    Filter(<<Entry("YEAR", <<"2020">>), Entry("GEO", <<"CH", "ZH">>)>>),
    Filter(<<Entry("FOO", <<"A">>)>>),
    Filter(<<Entry("FOO", <<"Z">>), Entry("D1", <<"A">>)>>) }

\* answers to the data fetch: observations in two DataSets (codes with and
\* without a metadata row, a dimension the metadata does not know, values
\* present, zero, empty, absent and not numeric), payloads without
\* observations, and failures with and without the no-records text
FnDataAnswers ==
  { HttpOk([shape |-> "ok",
            dataSets |-> << <<Obs(<<Key("GEO", "CH"), Key("SEX", "F")>>, "100.5"),
                              Obs(<<Key("GEO", "XX")>>, None),
                              Obs(<<Key("GEO", "ZH"), Key("TIME", "2020")>>, "0")>>,
                            <<Obs(<<Key("SEX", "CH")>>, ""),
                              Obs(<<>>, "abc")>> >>]),
    HttpOk([shape |-> "ok", dataSets |-> << <<Obs(<<Key("GEO", "CH")>>, "42")>> >>]),
    HttpOk([shape |-> "ok", dataSets |-> <<>>]),
    HttpOk([shape |-> "ok", dataSets |-> << <<>>, <<>> >>]),
    HttpOk([shape |-> "empty", dataSets |-> <<>>]),
    HttpOk([shape |-> "invalid", dataSets |-> <<>>]),
    HttpError(404, <<"NoRecordsFound">>),
    HttpError(404, <<"<Error>NoRecordsFound</Error>">>),
    HttpError(404, <<"Not Found">>),
    HttpError(404, <<"No records found">>),
    HttpError(500, <<"Internal Server Error">>),
    NetError(<<"fetch failed">>) }

FnObsStructures == {StructureA, StructureB}

\* tabular documents with one variable that lacks any of its optional fields,
\* with a time variable, with two variables and with none
FnOptionalFields == {"text", "values", "valueTexts", "time"}
FnPxDocuments ==
  { PxDocument("Population",
               <<Without([Variable("Jahr", "Year", <<"2020", "2021">>)
                            EXCEPT !.time = TRUE], absent)>>) :
      absent \in SUBSET FnOptionalFields }
    \cup {PxMetadataA, PxMetadataB, PxNoVariables}

\* the dataset of the client's own tests: one dataflow, one dimension GEO
\* at position 0 with the code CH, one observation
DataflowsT == <<Urn(<<"BFS">>, <<"DF_TEST_1">>, <<"1.0">>)>>
StructureT ==
  [shape |-> "ok",
   dims |-> <<Dim("GEO", "0", "CL_GEO_T")>>,
   codelists |-> <<Codelist("CL_GEO_T", <<Name("en", "Geography")>>,
                            <<Code("CH", <<Name("en", "Switzerland")>>)>>)>>]
DataT ==
  HttpOk([shape |-> "ok", dataSets |-> << <<Obs(<<Key("GEO", "CH")>>, "100.5")>> >>])

\* whole requests on an empty cache: the answers to the dataflow list call,
\* to the metadata fetch and to the data fetch
ChainIds == {<<"DF_TEST_1">>, <<"DF2">>}
ChainDataflows == {DataflowsT, DataflowsA, <<Urn(<<"CH1">>, <<"DF_TEST_1">>, <<"2.0">>)>>}
ChainStructures == {StructureT, StructureA}
ChainData == {DataT, HttpOk([shape |-> "ok", dataSets |-> <<>>])}

\* ------------------------------------------------------------------------
\* State
\* ------------------------------------------------------------------------
VARIABLES
  cache,   \* dataflowUrlCache: cache key -> URL
  req,     \* the requests to the SSE client: position, arguments, locals
  px,      \* a request to the PXWEB client (which shares no state)
  fn       \* a function applied on its own: its arguments and its result

vars == <<cache, req, px, fn>>

Req == 1..NumReq

\* a request that has not been issued yet
Idle ==
  [pc |-> "idle", op |-> None,
   tool |-> None,                \* the tool whose handler made the call
   result |-> ToolSuccess(<<>>), \* what the handler returned
   hasNumberBfs |-> FALSE,       \* history: an identifier was passed (not null, '')
   language |-> None,            \* history: the language argument as passed
   bfsNum |-> <<>>, lang |-> None,
   hasQuery |-> FALSE, query |-> <<>>, format |-> None,
   startPeriod |-> None, endPeriod |-> None,
   metadataFlag |-> FALSE,       \* the `metadata` argument of the pending getSseUrl
   dataUrl |-> <<>>,
   structure |-> [shape |-> "empty"],  \* the parsed answer of the metadata fetch
   metadata |-> <<>>,
   pxMetadata |-> PxNoVariables,
   url |-> <<>>,                 \* the URL of the last outbound call
   payload |-> NoPayload,        \* the body of the POST
   attempt |-> 0,                \* ky's attempt number for the call in flight
   calls |-> <<>>,               \* history: the outbound calls issued so far
   answers |-> <<>>,             \* history: the status of each answer (0: none)
   after |-> {},                 \* history: the requests already done when issued
   res |-> <<>>, err |-> <<>>]

Init ==
  /\ cache = <<>>
  /\ req = [r \in Req |-> Idle]
  /\ px = Idle
  /\ fn = [name |-> None]

\* the call returns or throws, and the handler that awaits it returns
Done(q, res) ==
  [q EXCEPT !.pc = "done", !.res = res, !.result = ToolResult(q.tool, Return(res))]
\* a failure that never settles the promise of the operation
FailedPending(q, thrown) ==
  [q EXCEPT !.pc = "pending", !.err = thrown.val]

Failed(q, thrown) ==
  [q EXCEPT !.pc = "failed", !.err = thrown.val,
            !.result = ToolResult(q.tool, Throw(thrown.val))]

\* requests are numbered in the order in which the callers issue them
CanIssue(r) == req[r].pc = "idle" /\ \A p \in 1..(r - 1) : req[p].pc # "idle"

\* the arguments of a call, and the requests that completed before it
Issue(op) ==
  [Idle EXCEPT !.op = op,
               !.tool = IF op = "getSseData" THEN "get_sse_data" ELSE "get_sse_metadata",
               !.after = {p \in Req : req[p].pc = "done"}]

\* getSseUrl up to its first await: the cache check, then either the cached
\* URL (for the metadata purpose the caller goes on to fetch it; for the data
\* purpose the caller resumes at "dataUrl") or the dataflow list call
GetSseUrl(q, metadata) ==
  LET key == cacheKey(q.bfsNum, metadata)
  IN IF key \in DOMAIN cache
       THEN IF metadata
              THEN [q EXCEPT !.pc = "metadataFetch", !.url = cache[key],
                             !.calls = Append(@, "metadata")]
              ELSE [q EXCEPT !.pc = "dataUrl", !.dataUrl = cache[key]]
       ELSE [q EXCEPT !.pc = "dataflowFetch", !.metadataFlag = metadata,
                      !.url = <<baseUrl, "/dataflow">>,
                      !.calls = Append(@, "discovery")]

\* getSseMetadata up to its first await
GetSseMetadataStart(q, numberBfs, language) ==
  LET lang == validateLanguage(language)
      bfsNum == formatBfsNumber(numberBfs)
  IN IF ~lang.ok THEN Failed(q, lang)
     ELSE IF ~bfsNum.ok THEN Failed(q, bfsNum)
     ELSE GetSseUrl([q EXCEPT !.lang = lang.val, !.bfsNum = bfsNum.val], TRUE)

\* the get_sse_metadata handler invokes getSseMetadata(numberBfs, language)
GetSseMetadata(r) ==
  /\ CanIssue(r)
  /\ \E numberBfs \in SseIds, language \in SseMetadataLanguages :
       req' = [req EXCEPT ![r] =
                 GetSseMetadataStart([Issue("getSseMetadata") EXCEPT
                                        !.hasNumberBfs = numberBfs # <<>>,
                                        !.language = language],
                                     numberBfs, DefaultTo(language, "de"))]
  /\ UNCHANGED <<cache, px, fn>>

\* the get_sse_data handler invokes
\* getSseData(numberBfs, language, query, startPeriod, endPeriod)
\* (config.requestDelay is 0 unless the environment sets it, so there is no
\* sleep between the validation and the cache check)
GetSseData(r) ==
  /\ CanIssue(r)
  /\ \E numberBfs \in SseIds, language \in SseDataLanguages, f \in SseQueries,
        startPeriod \in Periods, endPeriod \in Periods :
       LET lang == validateLanguage(DefaultTo(language, "de"))
           bfsNum == formatBfsNumber(numberBfs)
           q == [Issue("getSseData") EXCEPT
                   !.hasNumberBfs = numberBfs # <<>>, !.language = language,
                   !.hasQuery = f.has, !.query = f.q,
                   !.startPeriod = startPeriod, !.endPeriod = endPeriod]
       IN req' = [req EXCEPT ![r] =
                    IF ~lang.ok THEN Failed(q, lang)
                    ELSE IF ~bfsNum.ok THEN Failed(q, bfsNum)
                    ELSE GetSseUrl([q EXCEPT !.lang = lang.val,
                                             !.bfsNum = bfsNum.val], FALSE)]
  /\ UNCHANGED <<cache, px, fn>>

\* the dataflow list call of getSseUrl completes: match, build, cache, return
DataflowResponse(r) ==
  /\ req[r].pc = "dataflowFetch"
  /\ \E resp \in DataflowAnswers :
       LET q == [req[r] EXCEPT !.answers = Append(@, resp.status)]
           out == ResolveOutcome(resp, q.bfsNum, q.metadataFlag)
       IN IF ~out.ok
            THEN /\ req' = [req EXCEPT ![r] = Failed(q, out)]
                 /\ UNCHANGED cache
            ELSE /\ cache' = CacheSet(cache, cacheKey(q.bfsNum, q.metadataFlag), out.val)
                 /\ req' = [req EXCEPT ![r] =
                      IF q.metadataFlag
                        THEN [q EXCEPT !.pc = "metadataFetch", !.url = out.val,
                                       !.calls = Append(@, "metadata")]
                        ELSE [q EXCEPT !.pc = "dataUrl", !.dataUrl = out.val]]
  /\ UNCHANGED <<px, fn>>

\* getSseData resumes with the data URL and calls getSseMetadata(bfsNum, lang)
GetSseDataMetadata(r) ==
  /\ req[r].pc = "dataUrl"
  /\ req' = [req EXCEPT ![r] = GetSseMetadataStart(req[r], req[r].bfsNum, req[r].lang)]
  /\ UNCHANGED <<cache, px, fn>>

\* the metadata fetch completes: getSseMetadata returns the dimensions, and
\* getSseData goes on to build the URL and to issue the data fetch
MetadataResponse(r) ==
  /\ req[r].pc = "metadataFetch"
  /\ \E resp \in MetadataAnswers :
       LET q == [req[r] EXCEPT !.answers = Append(@, resp.status)]
           out == MetadataOutcome(resp, q.bfsNum, q.lang)
           got == [q EXCEPT !.structure = resp.body, !.metadata = out.val]
       IN req' = [req EXCEPT ![r] =
            IF ~out.ok THEN Failed(q, out)
            ELSE IF q.op = "getSseMetadata" THEN Done(got, out.val)
            ELSE [got EXCEPT
                    !.pc = "dataFetch",
                    !.url = DataFetchUrl(q.dataUrl,
                                         UrlQuery(out.val, q.hasQuery, q.query),
                                         q.startPeriod, q.endPeriod),
                    !.calls = Append(@, "data")]]
  /\ UNCHANGED <<cache, px, fn>>

\* the data fetch completes: the observations, or the failure
DataResponse(r) ==
  /\ req[r].pc = "dataFetch"
  /\ \E resp \in DataAnswers :
       LET q == [req[r] EXCEPT !.answers = Append(@, resp.status)]
           out == DataOutcome(resp, q.bfsNum, q.metadata)
       IN req' = [req EXCEPT ![r] = IF out.ok THEN Done(q, out.val) ELSE Failed(q, out)]
  /\ UNCHANGED <<cache, px, fn>>

\* getMetadata up to its first await: validation, then the GET
GetMetadataStart(q, numberBfs, language) ==
  LET lang == validateLanguage(language)
      bfsNum == formatBfsNumber(numberBfs)
  IN IF ~lang.ok THEN Failed(q, lang)
     ELSE IF ~bfsNum.ok THEN Failed(q, bfsNum)
     ELSE [q EXCEPT !.pc = "pxMetadataFetch",
                    !.lang = lang.val, !.bfsNum = bfsNum.val,
                    !.url = PxUrl(lang.val, bfsNum.val),
                    !.attempt = 1, !.calls = Append(@, "get")]

\* the get_dataset_metadata or the get_dataset_dimensions handler invokes
\* getMetadata(numberBfs, language)
GetMetadata ==
  /\ px.pc = "idle"
  /\ \E numberBfs \in PxIds, language \in Languages,
        tool \in {"get_dataset_metadata", "get_dataset_dimensions"} :
       px' = GetMetadataStart([Idle EXCEPT !.op = "getMetadata", !.tool = tool,
                                 !.hasNumberBfs = numberBfs # <<>>, !.language = language],
                              numberBfs, DefaultTo(language, "de"))
  /\ UNCHANGED <<cache, req, fn>>

\* the get_statistical_data handler invokes
\* getData(numberBfs, language, query, format); getData
\* validates and calls getMetadata(numberBfs, language) at once
GetData ==
  /\ px.pc = "idle"
  /\ \E numberBfs \in PxIds, language \in Languages, f \in PxQueries,
        format \in Formats :
       LET lang == validateLanguage(DefaultTo(language, "de"))
           bfsNum == formatBfsNumber(numberBfs)
           q == [Idle EXCEPT !.op = "getData", !.tool = "get_statistical_data",
                   !.hasNumberBfs = numberBfs # <<>>, !.language = language,
                   !.hasQuery = f.has, !.query = f.q, !.format = format]
       IN px' = IF ~lang.ok THEN Failed(q, lang)
                ELSE IF ~bfsNum.ok THEN Failed(q, bfsNum)
                ELSE GetMetadataStart(q, numberBfs, DefaultTo(language, "de"))
  /\ UNCHANGED <<cache, req, fn>>

\* the GET of getMetadata is answered: ky retries it, or getMetadata returns
\* the document (and getData builds the payload and POSTs it), or it fails
PxMetadataResponse ==
  /\ px.pc = "pxMetadataFetch"
  /\ \E resp \in PxMetadataAnswers :
       LET q == [px EXCEPT !.answers = Append(@, resp.status)]
           thrown == PxMetadataError(q.bfsNum, KyMessage(resp))
           payload == QueryPayload(resp.body, q.hasQuery, q.query, q.format)
       IN px' =
            IF KyOk(resp)
              THEN IF q.op = "getMetadata" THEN Done(q, <<resp.body>>)
                   ELSE IF ~payload.ok
                     THEN Failed([q EXCEPT !.pxMetadata = resp.body],
                                 PxDataError(q.bfsNum, payload.val))
                   ELSE [q EXCEPT !.pc = "pxDataFetch",
                                  !.pxMetadata = resp.body,
                                  !.payload = payload.val,
                                  !.attempt = 1, !.calls = Append(@, "post")]
            ELSE IF KyRetries(resp, q.attempt)
              THEN [q EXCEPT !.attempt = @ + 1, !.calls = Append(@, "get")]
            ELSE IF q.op = "getMetadata" THEN Failed(q, thrown)
            ELSE Failed(q, PxDataError(q.bfsNum, thrown.val))
  /\ UNCHANGED <<cache, req, fn>>

\* the POST of getData is answered: ky retries it, or getData returns the
\* response document unchanged, or it fails
PxDataResponse ==
  /\ px.pc = "pxDataFetch"
  /\ \E resp \in PxDataAnswers :
       LET q == [px EXCEPT !.answers = Append(@, resp.status)]
       IN px' =
            IF KyOk(resp) THEN Done(q, <<resp.body>>)
            ELSE IF KyRetries(resp, q.attempt)
              THEN [q EXCEPT !.attempt = @ + 1, !.calls = Append(@, "post")]
            ELSE Failed(q, PxDataError(q.bfsNum, KyMessage(resp)))
  /\ UNCHANGED <<cache, req, fn>>

\* the SSE client under concurrent requests
Next ==
  \E r \in Req :
    \/ GetSseMetadata(r)
    \/ GetSseData(r)
    \/ DataflowResponse(r)
    \/ GetSseDataMetadata(r)
    \/ MetadataResponse(r)
    \/ DataResponse(r)

Spec == Init /\ [][Next]_vars

\* the PXWEB client
NextPx ==
  \/ GetMetadata
  \/ GetData
  \/ PxMetadataResponse
  \/ PxDataResponse

SpecPx == Init /\ [][NextPx]_vars

\* both clients, one of them at a time: they share no state, so every step
\* of one commutes with every step of the other
NextAll ==
  \/ px = Idle /\ Next
  \/ req = [r \in Req |-> Idle] /\ NextPx

SpecAll == Init /\ [][NextAll]_vars

\* an operation that was called and has not returned or thrown yet
Running(q) == q.pc \notin {"idle", "done", "failed"}
Terminal(q) == q.pc \in {"done", "failed"}

\* a call is in flight: the operation awaits fetch or ky
Awaiting(q) ==
  q.pc \in {"dataflowFetch", "metadataFetch", "dataFetch", "pxMetadataFetch", "pxDataFetch"}

\* the await of request r is resumed with an answer
Answered(r) == Awaiting(req[r]) /\ req'[r] # req[r]
PxAnswered == Awaiting(px) /\ px' # px

\* one request at a time, each on the cache that those before it left: a
\* request reads no state of another request, only the cache
Solo(r) == \A p \in Req \ {r} : ~Running(req[p])

NextLive ==
  \/ px = Idle /\ \E r \in Req :
       Solo(r) /\ ( \/ GetSseMetadata(r)
                    \/ GetSseData(r)
                    \/ DataflowResponse(r)
                    \/ GetSseDataMetadata(r)
                    \/ MetadataResponse(r)
                    \/ DataResponse(r) )
  \/ req = [r \in Req |-> Idle] /\ NextPx

\* every outbound call returns a response or hits its timeout (fetch and ky
\* settle their promise either way) and the event loop resumes every settled
\* await; nothing obliges a client to call.  A call in flight can always be
\* answered and only its answer changes the request that awaits it, so weak
\* fairness of the answer is: the request is not awaiting infinitely often,
\* or it is answered infinitely often
SpecLive ==
  /\ Init /\ [][NextLive]_vars
  /\ \A r \in Req : WF_vars(px = Idle /\ GetSseDataMetadata(r))
  /\ \A r \in Req : []<>(~Awaiting(req[r])) \/ []<><<Answered(r)>>_vars
  /\ []<>(~Awaiting(px)) \/ []<><<PxAnswered>>_vars

\* the miss path of getSseUrl on one answer of the dataflow list call
ApplyGetSseUrl ==
  /\ fn.name = None
  /\ \E resp \in FnDataflowAnswers, numberBfs \in FnIds, metadata \in BOOLEAN :
       fn' = [name |-> "getSseUrl", resp |-> resp, numberBfs |-> numberBfs,
              metadata |-> metadata,
              out |-> ResolveOutcome(resp, numberBfs, metadata)]
  /\ UNCHANGED <<cache, req, px>>

\* the normalisation of getSseMetadata and the query part of getSseData on
\* one structure and one filter
ApplyUrlQuery ==
  /\ fn.name = None
  /\ \E structure \in FnStructures, lang \in FnLanguages, f \in FnQueries :
       LET metadata == MetadataOutcome(HttpOk(structure), <<"DF1">>, lang).val
       IN fn' = [name |-> "urlQuery", structure |-> structure, lang |-> lang,
                 hasQuery |-> f.has, query |-> f.q,
                 metadata |-> metadata,
                 urlQuery |-> UrlQuery(metadata, f.has, f.q)]
  /\ UNCHANGED <<cache, req, px>>

\* what getSseData and the get_sse_data tool make of one answer to the data
\* fetch, for the metadata of one structure
ApplyObservations ==
  /\ fn.name = None
  /\ \E structure \in FnObsStructures, lang \in FnLanguages, resp \in FnDataAnswers :
       LET metadata == MetadataOutcome(HttpOk(structure), <<"DF1">>, lang).val
           out == DataOutcome(resp, <<"DF1">>, metadata)
       IN fn' = [name |-> "observations", lang |-> lang, metadata |-> metadata,
                 resp |-> resp, out |-> out, tool |-> GetSseDataTool(out)]
  /\ UNCHANGED <<cache, req, px>>

\* getSseData from its first statement to its return on an empty cache and
\* without a filter: the data URL, the metadata URL, the metadata, the
\* observations, each step only when the one before it succeeded
ApplyGetSseData ==
  /\ fn.name = None
  /\ \E numberBfs \in ChainIds, lang \in FnLanguages, references \in ChainDataflows,
        structure \in ChainStructures, data \in ChainData :
       LET dataflows == HttpOk([shape |-> "ok", references |-> references])
           dataUrl == ResolveOutcome(dataflows, numberBfs, FALSE)
           metadataUrl == ResolveOutcome(dataflows, numberBfs, TRUE)
           metadata == MetadataOutcome(HttpOk(structure), numberBfs, lang)
       IN fn' = [name |-> "getSseData", numberBfs |-> numberBfs, lang |-> lang,
                 references |-> references, structure |-> structure, data |-> data,
                 dataUrl |-> dataUrl, metadataUrl |-> metadataUrl,
                 metadata |-> metadata,
                 out |-> IF ~dataUrl.ok THEN dataUrl
                         ELSE IF ~metadataUrl.ok THEN metadataUrl
                         ELSE IF ~metadata.ok THEN metadata
                         ELSE DataOutcome(data, numberBfs, metadata.val)]
  /\ UNCHANGED <<cache, req, px>>

\* get_dataset_metadata on a document that getMetadata returned
ApplyGetDatasetMetadata ==
  /\ fn.name = None
  /\ \E document \in FnPxDocuments :
       fn' = [name |-> "get_dataset_metadata", document |-> document,
              result |-> GetDatasetMetadataTool(Return(<<document>>))]
  /\ UNCHANGED <<cache, req, px>>

\* the functions of the SSE client on their own
NextFn ==
  \/ ApplyGetSseUrl
  \/ ApplyUrlQuery
  \/ ApplyObservations
  \/ ApplyGetSseData
  \/ ApplyGetDatasetMetadata

SpecFn == Init /\ [][NextFn]_vars

Pcs ==
  {"idle", "dataflowFetch", "dataUrl", "metadataFetch", "dataFetch",
   "pxMetadataFetch", "pxDataFetch", "done", "failed"}

TypeOK ==
  /\ \A k \in DOMAIN cache : Len(cache[k]) > 0
  /\ \A r \in Req : req[r].pc \in Pcs
  /\ px.pc \in Pcs

\* ------------------------------------------------------------------------
\* Properties
\* ------------------------------------------------------------------------
\* how many times the call c occurs in a history of calls
Count(calls, c) == Cardinality({i \in 1..Len(calls) : calls[i] = c})

\* the '.'-separated slots of a path segment
RECURSIVE Slots(_)
Slots(seg) ==
  LET i == IndexFrom(seg, ".", 1)
  IN IF i = 0 THEN <<seg>>
     ELSE <<SubSeq(seg, 1, i - 1)>> \o Slots(SubSeq(seg, i + 1, Len(seg)))

\* C1: a getSseMetadata issued after a getSseMetadata of the same dataset
\* has succeeded issues no dataflow list call, and when it gets the same
\* structure in the same language it returns the same dimensions.
C1_SecondMetadataCallHitsCache ==
  \A r \in Req : \A p \in req[r].after :
    ( /\ req[r].op = "getSseMetadata"
      /\ req[p].op = "getSseMetadata"
      /\ req[r].bfsNum = req[p].bfsNum )
    => /\ Count(req[r].calls, "discovery") = 0
       /\ ( /\ req[r].pc = "done"
            /\ req[r].lang = req[p].lang
            /\ req[r].structure = req[p].structure )
          => req[r].res = req[p].res

\* a second getSseMetadata of the same dataset has returned its dimensions
C1_Witness ==
  \E r \in Req : \E p \in req[r].after :
    /\ req[r].op = "getSseMetadata" /\ req[p].op = "getSseMetadata"
    /\ req[r].bfsNum = req[p].bfsNum
    /\ req[r].pc = "done"

\* C2: one dataflow list call caches the URLs of both purposes, so the keys
\* of a dataset are cached together and a getSseData issues at most one
\* dataflow list call.
C2_BothPurposesCached ==
  \A r \in Req :
    /\ cacheKey(req[r].bfsNum, TRUE) \in DOMAIN cache
         <=> cacheKey(req[r].bfsNum, FALSE) \in DOMAIN cache
    /\ req[r].op = "getSseData" => Count(req[r].calls, "discovery") <= 1

\* C3: when the dataflow list is fetched and no URN carries the requested
\* id, getSseUrl fails with the not-found message of that id; when the call
\* itself fails (status, transport, unreadable payload) it fails with
\* another message.
C3_NotFoundDistinct ==
  fn.name = "getSseUrl" =>
    LET id == fn.numberBfs
        refs == fn.resp.body.references
        fetched == fn.resp.kind = "http" /\ IsOk(fn.resp) /\ fn.resp.body.shape # "invalid"
        noUrn == \A i \in 1..Len(refs) :
                   ~UrnMatch(refs[i]).found \/ UrnMatch(refs[i]).dataflowId # id
        notFoundText ==
          <<"Failed to resolve SSE URL for ">> \o id \o <<": ", "Dataset ">> \o id
            \o <<" not found in SSE API">>
    IN /\ (fetched /\ noUrn) => (~fn.out.ok /\ fn.out.val = notFoundText)
       /\ ~fetched => (~fn.out.ok /\ fn.out.val # notFoundText)

\* a non-empty dataflow list without the requested id, and a failed call
C3_Witness ==
  /\ fn.name = "getSseUrl"
  /\ fn.resp.kind = "http" /\ IsOk(fn.resp) /\ fn.resp.body.shape = "ok"
  /\ Len(fn.resp.body.references) > 0
  /\ ~fn.out.ok

\* C4: on a fetched dataflow list the URL is built from the agency and the
\* version of the first URN, in the order of the list, whose parsed id
\* equals the requested one.
C4_FirstMatchWins ==
  (fn.name = "getSseUrl" /\ fn.resp.kind = "http" /\ IsOk(fn.resp)
     /\ fn.resp.body.shape = "ok") =>
    LET refs == fn.resp.body.references
        hits == {i \in 1..Len(refs) :
                   UrnMatch(refs[i]).found /\ UrnMatch(refs[i]).dataflowId = fn.numberBfs}
        first == CHOOSE i \in hits : \A k \in hits : i <= k
    IN hits # {} =>
         /\ fn.out.ok
         /\ fn.out.val = BuildSseUrl(UrnMatch(refs[first]), fn.metadata)

\* the id is declared by two URNs of different agencies
C4_Witness ==
  /\ fn.name = "getSseUrl" /\ fn.resp.kind = "http" /\ fn.resp.body.shape = "ok"
  /\ fn.out.ok
  /\ \E i, k \in 1..Len(fn.resp.body.references) :
       /\ i < k
       /\ UrnMatch(fn.resp.body.references[i]).dataflowId = fn.numberBfs
       /\ UrnMatch(fn.resp.body.references[k]).dataflowId = fn.numberBfs
       /\ UrnMatch(fn.resp.body.references[i]).agencyId
            # UrnMatch(fn.resp.body.references[k]).agencyId

\* C5: no step removes a key from the cache.
C5_CacheOnlyGrows == [][DOMAIN cache \subseteq DOMAIN cache']_vars

\* a request issued when the cache was filled has failed after an outbound
\* call, and the cache is still filled
C5_Witness ==
  /\ DOMAIN cache # {}
  /\ \E r \in Req : /\ req[r].pc = "failed"
                    /\ req[r].calls # <<>>
                    /\ req[r].after # {}

\* C6: an entry of the cache, once written, is never overwritten with
\* another URL.
C6_InsertIfAbsent ==
  [][\A k \in DOMAIN cache \cap DOMAIN cache' : cache'[k] = cache[k]]_vars

\* the codes of the normalised dimensions, and the position of each
FnCodes == {fn.metadata[i].code : i \in 1..Len(fn.metadata)}
FnPos(d) ==
  fn.metadata[CHOOSE i \in 1..Len(fn.metadata) : fn.metadata[i].code = d].position_dimension

\* what the filter selects for a dimension code, '+'-joined
FnSelected(d) ==
  LET hits == {i \in 1..Len(fn.query) : fn.query[i].code = d}
      e == fn.query[CHOOSE i \in hits : TRUE]
      values == IF e.arr THEN e.vals ELSE <<e.str>>
  IN IF ~fn.hasQuery \/ hits = {} THEN <<>>
     ELSE Text(join([i \in 1..Len(values) |-> <<values[i]>>], "+"))

\* C7: with well-formed, distinct positions the path segment is "all" when
\* no dimension has a selection, and else has one slot per dimension in
\* position order, holding the '+'-joined selection of that dimension or
\* nothing; positions 0, 1, 2 with position 1 filtered to A, B give ".A+B.".
C7_PathSegment ==
  (fn.name = "urlQuery"
     /\ (\A d \in FnCodes : FnPos(d) # NaN)
     /\ (\A d, e \in FnCodes : d # e => FnPos(d) # FnPos(e))) =>
    LET slots == Slots(fn.urlQuery)
        rank(d) == 1 + Cardinality({e \in FnCodes : FnPos(e) < FnPos(d)})
    IN /\ (\A d \in FnCodes : FnSelected(d) = <<>>) => fn.urlQuery = <<"all">>
       /\ (\E d \in FnCodes : FnSelected(d) # <<>>) =>
            /\ Len(slots) = Cardinality(FnCodes)
            /\ \A d \in FnCodes : slots[rank(d)] = FnSelected(d)
       /\ (fn.structure \in {Structure3, Structure3r}
             /\ fn.query = <<Entry("D1", <<"A", "B">>)>>)
          => fn.urlQuery = <<".", "A", "+", "B", ".">>

\* the middle one of three dimensions, declared out of order, is filtered
C7_Witness ==
  /\ fn.name = "urlQuery"
  /\ fn.structure = Structure3r
  /\ fn.query = <<Entry("D1", <<"A", "B">>)>>
  /\ fn.urlQuery = <<".", "A", "+", "B", ".">>

\* C8: a path segment other than "all" has one slot for every dimension the
\* structure declares, and the slot of a dimension is its rank by position
\* among all declared dimensions.
C8_SlotPerDeclaredDimension ==
  LET dims == fn.structure.dims
      pos(i) == parseInt(OrElse(dims[i].position, "0"))
  IN (fn.name = "urlQuery" /\ fn.urlQuery # <<"all">>
        /\ (\A i \in 1..Len(dims) : pos(i) # NaN)
        /\ (\A i, k \in 1..Len(dims) : i # k => pos(i) # pos(k))) =>
       LET slots == Slots(fn.urlQuery)
           rank(i) == 1 + Cardinality({k \in 1..Len(dims) : pos(k) < pos(i)})
       IN /\ Len(slots) = Len(dims)
          /\ \A i \in 1..Len(dims) : slots[rank(i)] = FnSelected(dims[i].id)

\* the POST of getData has been issued
Posted == px.op = "getData" /\ Count(px.calls, "post") > 0

\* C9: getData without a filter posts one entry per variable of the
\* metadata, in its order, each selecting 'all' with values ['*'], and the
\* requested format.
C9_NullFilterSelectsAll ==
  (Posted /\ ~px.hasQuery) =>
    LET variables == px.pxMetadata.variables
    IN /\ Len(px.payload.query) = Len(variables)
       /\ \A i \in 1..Len(variables) :
            px.payload.query[i] =
              [code |-> variables[i].code,
               selection |-> [filter |-> "all", values |-> <<"*">>]]
       /\ px.payload.response = [format |-> px.format]

\* a two-variable dataset is requested without a filter, not in the default format
C9_Witness ==
  /\ Posted /\ ~px.hasQuery
  /\ Len(px.pxMetadata.variables) = 2
  /\ px.format = "csv"

\* C10: getData with a filter posts, for every code the filter names, one
\* entry selecting 'item' with exactly the requested values (a bare value as
\* a one-element list), and no entry for any other code.
C10_FilterSelectsItems ==
  (Posted /\ px.hasQuery) =>
    LET entries == px.payload.query
    IN /\ \A k \in 1..Len(px.query) :
            LET f == px.query[k]
                hits == {i \in 1..Len(entries) : entries[i].code = f.code}
            IN /\ Cardinality(hits) = 1
               /\ \A i \in hits :
                    entries[i].selection =
                      [filter |-> "item",
                       values |-> IF f.arr THEN f.vals ELSE <<f.str>>]
       /\ \A i \in 1..Len(entries) :
            \E k \in 1..Len(px.query) : px.query[k].code = entries[i].code

\* a bare value is requested and a variable of the dataset is not named
C10_Witness ==
  /\ Posted /\ px.hasQuery
  /\ \E k \in 1..Len(px.query) : ~px.query[k].arr
  /\ \E i \in 1..Len(px.pxMetadata.variables) :
       \A k \in 1..Len(px.query) : px.query[k].code # px.pxMetadata.variables[i].code

\* C11: the entries getData posts for a filter are in the order of the
\* metadata's variables, whatever the key order of the filter, and every
\* entry's code is the code of a variable of the dataset.
C11_DatasetOrder ==
  (Posted /\ px.hasQuery) =>
    LET entries == px.payload.query
        variables == px.pxMetadata.variables
        at(c) == {j \in 1..Len(variables) : variables[j].code = c}
    IN /\ \A i \in 1..Len(entries) : at(entries[i].code) # {}
       /\ \A i \in 1..Len(entries) : \A k \in (i + 1)..Len(entries) :
            \A j \in at(entries[i].code) : \A l \in at(entries[k].code) : j < l

\* the codes behind the rows of the normalised metadata: every code of the
\* codelist a declared dimension refers to, with the row's label
FnLabelled ==
  {[names |-> c.names, id |-> c.id, valueText |-> fn.metadata[i].valueText] :
     <<i, c>> \in
       {x \in (1..Len(fn.metadata)) \X
              UNION {Range(cl.codes) : cl \in Range(fn.structure.codelists)} :
          /\ x[2].id = fn.metadata[x[1]].value
          /\ \E d \in Range(fn.structure.dims) :
               /\ d.id = fn.metadata[x[1]].code
               /\ \E cl \in Range(fn.structure.codelists) :
                    cl.id = d.codelistRef /\ x[2] \in Range(cl.codes)}}

\* C12 as stated: the label of a code is its name in the requested
\* language when one is declared, else its first declared name, and the code
\* only when it has no names.
C12_LabelAsStated ==
  fn.name = "urlQuery" =>
    \A c \in FnLabelled :
      LET i == FindLang(c.names, fn.lang)
      IN c.valueText = IF i # 0 THEN c.names[i].text
                       ELSE IF Len(c.names) > 0 THEN c.names[1].text
                       ELSE c.id

\* C12: the label of a code is the text of its name in the requested
\* language when one is declared, else the text of its first declared name;
\* it is the code when that text is empty or the code has no names.
C12_LabelFallback ==
  fn.name = "urlQuery" =>
    \A c \in FnLabelled :
      LET i == FindLang(c.names, fn.lang)
          chosen == IF i # 0 THEN c.names[i].text
                    ELSE IF Len(c.names) > 0 THEN c.names[1].text
                    ELSE ""
      IN c.valueText = IF chosen = "" THEN c.id ELSE chosen

\* a code named in another language only is labelled with that name, next
\* to a code labelled in the requested language
C12_Witness ==
  /\ fn.name = "urlQuery"
  /\ \E c \in FnLabelled :
       /\ FindLang(c.names, fn.lang) = 0 /\ Len(c.names) > 0
       /\ c.valueText = c.names[1].text /\ c.valueText # c.id
  /\ \E c \in FnLabelled :
       /\ FindLang(c.names, fn.lang) # 0
       /\ c.valueText = c.names[FindLang(c.names, fn.lang)].text

\* the Obs entries of a payload, over all its DataSets, in document order
RECURSIVE Flatten(_)
Flatten(dataSets) ==
  IF dataSets = <<>> THEN <<>> ELSE Head(dataSets) \o Flatten(Tail(dataSets))

\* the data fetch was answered with a well-formed payload
FnParsed ==
  /\ fn.name = "observations"
  /\ fn.resp.kind = "http" /\ IsOk(fn.resp) /\ fn.resp.body.shape = "ok"

FnObs == Flatten(fn.resp.body.dataSets)

\* C13: an observation whose ObsValue is absent or empty has the measure
\* null (not 0) and does not fail the call; a present value is its
\* floating-point parse, so "0" gives the number 0.
C13_MissingValueIsNull ==
  FnParsed =>
    /\ fn.out.ok
    /\ \A i \in 1..Len(FnObs) :
         /\ i <= Len(fn.out.val)
         /\ FnObs[i].obsValue \in {None, ""} => fn.out.val[i].value.isNull
         /\ FnObs[i].obsValue \notin {None, ""} =>
              /\ ~fn.out.val[i].value.isNull
              /\ fn.out.val[i].value.num = parseFloat(FnObs[i].obsValue)

\* a payload with an absent value, an empty value, "0" and a decimal number
C13_Witness ==
  /\ FnParsed /\ fn.out.ok
  /\ \A v \in {None, "", "0", "100.5"} :
       \E i \in 1..Len(FnObs) : FnObs[i].obsValue = v
  /\ \E i \in 1..Len(FnObs) :
       /\ FnObs[i].obsValue = "0"
       /\ fn.out.val[i].value = [isNull |-> FALSE, num |-> 0]
  /\ \E i \in 1..Len(FnObs) :
       FnObs[i].obsValue = None /\ fn.out.val[i].value.isNull

\* the rows of the metadata that match a key on dimension code and value code
FnRows(key) ==
  {j \in 1..Len(fn.metadata) :
     fn.metadata[j].code = key.id /\ fn.metadata[j].value = key.value}

FnNoObservations ==
  /\ fn.name = "observations"
  /\ fn.resp.kind = "http" /\ IsOk(fn.resp)
  /\ fn.resp.body.shape \in {"ok", "empty"}
  /\ Flatten(fn.resp.body.dataSets) = <<>>

\* C16: a data fetch that succeeds with a valid payload that holds no
\* observations makes getSseData return the empty sequence, not fail.
C16_EmptyPayloadIsEmptyResult ==
  FnNoObservations =>
    /\ fn.out = Return(<<>>)
    /\ ~fn.tool.isError /\ fn.tool.totalObservations = 0

\* two DataSets without Obs entries give the empty sequence
C16_Witness ==
  /\ FnNoObservations
  /\ Len(fn.resp.body.dataSets) = 2
  /\ fn.out.ok /\ fn.out.val = <<>>

\* the data fetch failed: no answer, or an answer with an error status
FnDataFailed ==
  /\ fn.name = "observations"
  /\ fn.resp.kind = "throw" \/ ~IsOk(fn.resp)

\* the upstream reports the failure as 'NoRecordsFound'
FnNoRecords == \E i \in 1..Len(fn.resp.text) : Contains(fn.resp.text[i], "NoRecordsFound")

\* C15: a data fetch that fails with the upstream 'NoRecordsFound' makes
\* getSseData fail with 'No records found for the specified query' and the
\* get_sse_data tool report it with the tip to check the filters; any other
\* failure of the data fetch is reported as 'Failed to fetch SSE data for
\* <id>: ...' and without the tip.
C15_NoRecordsDistinct ==
  FnDataFailed =>
    LET upstream == IF fn.resp.kind = "throw" THEN fn.resp.text
                    ELSE <<"HTTP ", ToString(fn.resp.status), ": ">> \o fn.resp.text
    IN /\ fn.tool.isError
       /\ IF FnNoRecords
            THEN /\ fn.out = Throw(<<"No records found for the specified query">>)
                 /\ fn.tool.text = <<"Error getting SSE data: ">> \o fn.out.val \o SseDataTip
            ELSE /\ fn.out = Throw(<<"Failed to fetch SSE data for ", "DF1", ": ">> \o upstream)
                 /\ fn.tool.text = <<"Error getting SSE data: ">> \o fn.out.val

\* the requests issued so far, to either client
Issued == {q \in {req[r] : r \in Req} \cup {px} : q.op # None}
IssuedNext == {q \in {req'[r] : r \in Req} \cup {px'} : q.op # None}

\* the language argument is none of de, fr, it, en in any case of letters
\* (null, '' and an omitted argument are none of them)
NotOffered(language) == toLowerCase(language) \notin {"de", "fr", "it", "en"}

\* a request that was rejected: it failed, has issued no call and holds no URL
Rejected(q) ==
  /\ q.pc = "failed"
  /\ q.calls = <<>> /\ q.answers = <<>>
  /\ q.url = <<>> /\ q.dataUrl = <<>>

\* C17 as stated: a request of any of the four operations whose language is
\* not offered (null, undefined and '' included) or whose identifier is
\* missing fails without an outbound call and without a step on the cache.
C17_RejectedAsStated ==
  [][\A q \in IssuedNext :
       (NotOffered(q.language) \/ ~q.hasNumberBfs) =>
         Rejected(q) /\ (q \notin Issued => cache' = cache)]_vars

\* C17: a request of any of the four operations whose language is given and
\* not offered (null and '' included), or whose identifier is missing, fails
\* without an outbound call and without a step on the cache; an omitted
\* language is the default 'de' and is not rejected.
C17_RejectedBeforeAnyCall ==
  [][\A q \in IssuedNext :
       (NotOffered(DefaultTo(q.language, "de")) \/ ~q.hasNumberBfs) =>
         Rejected(q) /\ (q \notin Issued => cache' = cache)]_vars

\* with a URL in the cache, a request with the language null and one without
\* identifier are rejected, and one without language goes on in 'de'
C17_Witness ==
  /\ cache # <<>>
  /\ \E q \in Issued : q.language = None /\ q.hasNumberBfs /\ Rejected(q)
  /\ \E q \in Issued :
       q.language = Undefined /\ q.lang = "de" /\ q.calls # <<>> /\ q.pc = "done"

\* the requests for data issued so far
DataRequests == {q \in Issued : q.op \in {"getSseData", "getData"}}

Succeeded(status) == status >= 200 /\ status <= 299

\* the place of a call in the chain: resolve, metadata fetch, data fetch
Stage(call) ==
  CASE call = "discovery" -> 1
    [] call \in {"metadata", "get"} -> 2
    [] call \in {"data", "post"} -> 3

\* C18: the calls of a data request are issued one after the other, in the
\* order resolve, metadata fetch, data fetch; the data fetch (the GET of the
\* data URL, the POST) is issued only after a metadata fetch, and never after
\* an answer to discovery or to the metadata fetch that was a failure and
\* was not retried; a failed request has no call in flight.
C18_FailureAbortsChain ==
  \A q \in DataRequests :
    /\ Len(q.calls) - Len(q.answers) \in {0, 1}
    /\ q.pc \in {"done", "failed"} => Len(q.calls) = Len(q.answers)
    /\ \A i \in 1..Len(q.calls) : \A j \in 1..(i - 1) :
         Stage(q.calls[j]) <= Stage(q.calls[i])
    /\ \A i \in 1..Len(q.calls) :
         Stage(q.calls[i]) = 3 =>
           /\ \E j \in 1..(i - 1) : Stage(q.calls[j]) = 2
           /\ \A j \in 1..(i - 1) :
                Stage(q.calls[j]) < 3 =>
                  Succeeded(q.answers[j]) \/ q.calls[j + 1] = q.calls[j]

\* a getSseData whose metadata fetch is answered 404 after two resolutions
\* ends there, without a data fetch
C18_Witness ==
  \E q \in DataRequests :
    /\ q.op = "getSseData" /\ q.pc = "failed"
    /\ q.calls = <<"discovery", "discovery", "metadata">>
    /\ q.answers = <<200, 200, 404>>

\* the transient statuses: request timeout, payload too large, rate limited
\* and the 5xx family
Transient == {408, 413, 429} \cup (500..599)

\* the answer i of q is that of the last of 1 + maxRetries attempts of a call
Exhausted(q, i) ==
  /\ i > maxRetries
  /\ \A j \in (i - maxRetries)..i :
       q.calls[j] = q.calls[i] /\ ~Succeeded(q.answers[j])

\* C19: every call (the GET and the POST of the tabular backend, the
\* discovery, metadata and data fetches of the time-series backend) that is
\* answered with a transient status is attempted again, up to maxRetries times.
C19_TransientRetried ==
  \A q \in Issued : \A i \in 1..Len(q.answers) :
    q.answers[i] \in Transient =>
      \/ Len(q.calls) > i /\ q.calls[i + 1] = q.calls[i]
      \/ Exhausted(q, i)

\* C20: an answer with an error status that is not in the retry list ends
\* the call and the request with that attempt; no call is attempted more
\* than 1 + maxRetries times.
C20_BoundedAttempts ==
  \A q \in Issued :
    /\ \A i \in 1..Len(q.answers) :
         (q.answers[i] # 0 /\ ~Succeeded(q.answers[i])
            /\ q.answers[i] \notin retryStatusCodes) =>
           i = Len(q.calls) /\ q.pc = "failed"
    /\ \A i \in 1..Len(q.answers) :
         (Len(q.calls) > i /\ q.calls[i + 1] = q.calls[i] /\ ~Succeeded(q.answers[i])) =>
           ~Exhausted(q, i)
    /\ q.attempt <= 1 + maxRetries

\* a GET attempted 1 + maxRetries times, the last answer outside the list
C20_Witness ==
  \E q \in Issued :
    /\ q.calls = <<"get", "get", "get", "get">>
    /\ q.answers = <<503, 503, 503, 404>>
    /\ q.attempt = 1 + maxRetries /\ q.pc = "failed"

\* the error prefix of each tool
ErrorPrefix(tool) ==
  CASE tool = "get_statistical_data" -> "Error getting statistical data: "
    [] tool = "get_sse_data" -> "Error getting SSE data: "
    [] tool = "get_dataset_metadata" -> "Error getting dataset metadata: "
    [] tool = "get_dataset_dimensions" -> "Error getting dataset dimensions: "
    [] tool = "get_sse_metadata" -> "Error getting SSE metadata: "

Throttled(q) == q.result.text # <<>> /\ <<q.result.text[Len(q.result.text)]>> = RateLimitTip

\* C22: get_statistical_data appends the throttling tip to a failure if and
\* only if the failure is an upstream answer with status 429, whatever the
\* dataset identifier.
C22_TipOnlyFor429 ==
  \A q \in Issued :
    (q.tool = "get_statistical_data" /\ q.pc = "failed") =>
      (Throttled(q) <=> (q.answers # <<>> /\ q.answers[Len(q.answers)] = 429))

\* the position a dimension declares: the integer of its position attribute,
\* 0 when the attribute is absent or is no integer
DeclaredPosition(dim) ==
  IF dim.position = None \/ parseInt(dim.position) = NaN THEN 0
  ELSE parseInt(dim.position)

\* C23: every row of the normalised metadata carries the declared position
\* of its dimension as an integer, and 0 when the position attribute is
\* absent or malformed.
C23_PositionOrZero ==
  fn.name = "urlQuery" =>
    \A i \in 1..Len(fn.metadata) : \A d \in Range(fn.structure.dims) :
      d.id = fn.metadata[i].code =>
        fn.metadata[i].position_dimension = DeclaredPosition(d)

ChainAgencies == {<<"BFS">>, <<"OFS">>, <<"CH1">>}
ChainVersions == {<<"1.0">>, <<"2.0">>}

\* C24: when the dataflow list declares the requested id as
\* Dataflow=AGENCY:ID(VERSION), the metadata URL is
\* {base}/dataflow/AGENCY/ID/VERSION?references=all and the data URL is
\* {base}/data/AGENCY,ID,VERSION/; for BFS:DF_TEST_1(1.0) with the dimension
\* GEO and the code CH named 'Switzerland' the metadata is the one row GEO,
\* CH, Switzerland, position 0, and the observation GEO=CH with 100.5 is
\* returned as GEO: 'Switzerland', value: 100.5.
C24_ResolvedUrlsAndScenario ==
  fn.name = "getSseData" =>
    /\ \A agency \in ChainAgencies, version \in ChainVersions :
         fn.references[1] = Urn(agency, fn.numberBfs, version) =>
           /\ fn.metadataUrl =
                Return(<<baseUrl, "/dataflow/">> \o agency \o <<"/">> \o fn.numberBfs
                         \o <<"/">> \o version \o <<"?references=all">>)
           /\ fn.dataUrl =
                Return(<<baseUrl, "/data/">> \o agency \o <<",">> \o fn.numberBfs
                         \o <<",">> \o version \o <<"/">>)
    /\ (fn.numberBfs = <<"DF_TEST_1">> /\ fn.references = DataflowsT
          /\ fn.structure = StructureT /\ fn.lang = "en") =>
         /\ fn.metadata.ok /\ Len(fn.metadata.val) = 1
         /\ fn.metadata.val[1].code = "GEO" /\ fn.metadata.val[1].value = "CH"
         /\ fn.metadata.val[1].valueText = "Switzerland"
         /\ fn.metadata.val[1].position_dimension = 0
         /\ fn.data = DataT =>
              fn.out = Return(<<[dims |-> [id \in {"GEO"} |-> "Switzerland"],
                                 value |-> [isNull |-> FALSE, num |-> 1005]]>>)

\* the scenario of the client's tests, from the dataflow list to the observation
C24_Witness ==
  /\ fn.name = "getSseData"
  /\ fn.numberBfs = <<"DF_TEST_1">> /\ fn.references = DataflowsT
  /\ fn.structure = StructureT /\ fn.lang = "en" /\ fn.data = DataT
  /\ fn.metadataUrl.val = <<baseUrl, "/dataflow/", "BFS", "/", "DF_TEST_1", "/", "1.0",
                            "?references=all">>
  /\ fn.dataUrl.val = <<baseUrl, "/data/", "BFS", ",", "DF_TEST_1", ",", "1.0", "/">>
  /\ fn.out.ok /\ Len(fn.out.val) = 1

\* C25: get_dataset_metadata returns one entry per upstream variable, in
\* order, with the variable's code; the label is the variable's text, or the
\* code when the text is missing; values and valueTexts are the variable's,
\* or empty lists when missing; the time flag is the variable's, or false
\* when missing; valueCount is the length of the returned values.
C25_VariableDefaults ==
  fn.name = "get_dataset_metadata" =>
    /\ ~fn.result.isError
    /\ Len(fn.result.data.variables) = Len(fn.document.variables)
    /\ \A i \in 1..Len(fn.document.variables) :
         LET variable == fn.document.variables[i]
             entry == fn.result.data.variables[i]
         IN /\ entry.code = variable.code
            /\ entry.text = IF "text" \in variable.absent THEN variable.code
                            ELSE variable.text
            /\ entry.values = IF "values" \in variable.absent THEN <<>>
                              ELSE variable.values
            /\ entry.valueTexts = IF "valueTexts" \in variable.absent THEN <<>>
                                  ELSE variable.valueTexts
            /\ entry.time = IF "time" \in variable.absent THEN FALSE
                            ELSE variable.time
            /\ entry.valueCount = Len(entry.values)

\* the most outbound calls one invocation can make: one resolution per
\* purpose and one fetch each for the time-series backend, every attempt of
\* the GET and of the POST for the tabular one
MaxCalls(op) ==
  CASE op = "getSseMetadata" -> 2
    [] op = "getSseData" -> 4
    [] op = "getMetadata" -> 1 + maxRetries
    [] op = "getData" -> 2 * (1 + maxRetries)

Lookups(op) == IF op = "getSseData" THEN 2 ELSE 1

\* C26: when every outbound call is answered or times out, every invocation
\* of getSseMetadata, getSseData, getMetadata and getData ends, returned or
\* failed and never both, and stays so; it makes a bounded number of
\* outbound calls: at most one discovery for each purpose it looks up and
\* at most 1 + maxRetries attempts of each call.
C26_Terminates ==
  /\ \A r \in Req : Running(req[r]) ~> Terminal(req[r])
  /\ Running(px) ~> Terminal(px)
  /\ [][/\ \A r \in Req : Terminal(req[r]) => req'[r] = req[r]
        /\ Terminal(px) => px' = px]_vars
  /\ [](\A q \in Issued :
          /\ q.pc = "done" => q.err = Idle.err
          /\ q.pc = "failed" => q.res = Idle.res /\ q.err # Idle.err
          /\ Len(q.calls) <= MaxCalls(q.op)
          /\ Count(q.calls, "discovery") <= Lookups(q.op)
          /\ q.attempt <= 1 + maxRetries)

\* a getData that returns after the last attempt of its GET and of its POST
C26_Witness ==
  /\ px.op = "getData" /\ px.pc = "done"
  /\ Len(px.calls) = MaxCalls("getData")
  /\ Len(px.answers) = Len(px.calls)

\* the key that request q looks up when it asks for a URL from pc
LookupKey(q, pc) ==
  cacheKey(q.bfsNum, pc = "dataUrl" \/ q.op = "getSseMetadata")

Last(s) == s[Len(s)]

\* C27: a resolution that fails, because the dataflow list call is rejected,
\* is answered with an error status or declares no URN for the requested id,
\* leaves the cache as it was; the cache changes only when a resolution
\* succeeds, so a later lookup of a key that no resolution has stored makes
\* the dataflow list call again.
C27_FailuresNotCached ==
  [][\A r \in Req :
       /\ (req[r].pc = "dataflowFetch" /\ req'[r] # req[r]) =>
            LET answer == Last(req'[r].answers)
                key == cacheKey(req[r].bfsNum, req[r].metadataFlag)
            IN /\ (req'[r].pc = "failed" \/ ~Succeeded(answer)) => cache' = cache
               /\ ~Succeeded(answer) => req'[r].pc = "failed"
               /\ req'[r].pc # "failed" => key \in DOMAIN cache'
       /\ ( /\ req[r].pc \in {"idle", "dataUrl"} /\ req'[r] # req[r]
            /\ req'[r].pc \notin {"idle", "failed"}
            /\ LookupKey(req'[r], req[r].pc) \notin DOMAIN cache ) =>
              /\ req'[r].pc = "dataflowFetch"
              /\ Last(req'[r].calls) = "discovery"
              /\ Count(req'[r].calls, "discovery") = Count(req[r].calls, "discovery") + 1
     /\ (cache' # cache =>
           \E p \in Req : req[p].pc = "dataflowFetch"
                          /\ req'[p].pc \notin {"dataflowFetch", "failed"})]_vars

\* the first getSseMetadata found no URN for its dataset, nothing was cached,
\* and the second one, for the same dataset, has fetched the list again
C27_Witness ==
  /\ req[1].op = "getSseMetadata" /\ req[1].pc = "failed"
  /\ req[1].calls = <<"discovery">> /\ req[1].answers = <<200>>
  /\ req[2].op = "getSseMetadata" /\ req[2].bfsNum = req[1].bfsNum
  /\ req[2].calls = <<"discovery">> /\ req[2].answers = <<0>>
  /\ req[2].pc = "failed"
  /\ cache = <<>>

\* the SSE requests that have passed validation
SseRequests == {q \in {req[r] : r \in Req} : q.op # None /\ q.lang # None}

\* url is the URL getSseUrl composes for this dataset and this purpose, for
\* some agency and some version
ComposedFor(url, numberBfs, metadata) ==
  \E agency \in {"BFS", "OFS"}, version \in {"1.0", "2.0"} :
    url = IF metadata
            THEN <<baseUrl, "/dataflow/", agency, "/">> \o numberBfs
                   \o <<"/", version, "?references=all">>
            ELSE <<baseUrl, "/data/", agency, ",">> \o numberBfs
                   \o <<",", version, "/">>

\* C28: the keys of two different (dataset, purpose) pairs differ, also when
\* one identifier is another one followed by '_true'; every URL in the cache
\* is stored under the key of the dataset and the purpose it was composed
\* for, and the URL a request gets from getSseUrl, fetched or cached, is the
\* one of its own dataset and purpose.
C28_KeyIdentifiesDatasetAndPurpose ==
  /\ \A q1 \in SseRequests, q2 \in SseRequests, m1 \in BOOLEAN, m2 \in BOOLEAN :
       cacheKey(q1.bfsNum, m1) = cacheKey(q2.bfsNum, m2) =>
         q1.bfsNum = q2.bfsNum /\ m1 = m2
  /\ \A key \in DOMAIN cache :
       \E q \in SseRequests, metadata \in BOOLEAN :
         /\ key = cacheKey(q.bfsNum, metadata)
         /\ ComposedFor(cache[key], q.bfsNum, metadata)
  /\ \A q \in SseRequests :
       /\ q.dataUrl # <<>> => ComposedFor(q.dataUrl, q.bfsNum, FALSE)
       /\ q.pc = "metadataFetch" => ComposedFor(q.url, q.bfsNum, TRUE)

\* the metadata URL of DF1 and the data URL of DF1_true are both cached
C28_Witness ==
  /\ <<"DF1", "_", "true">> \in DOMAIN cache
  /\ <<"DF1", "_", "true", "_", "false">> \in DOMAIN cache
  /\ \E r \in Req : req[r].bfsNum = <<"DF1", "_", "true">> /\ req[r].dataUrl # <<>>
  /\ \E r \in Req : req[r].bfsNum = <<"DF1">> /\ req[r].op = "getSseMetadata"

\* C29: a key of the filter that is not a dimension code of the normalised
\* metadata adds no slot and no value to the path segment and makes nothing
\* fail: the segment has one slot per dimension code, each holding what the
\* filter selects for that code; a filter that names only such keys, or
\* selects nothing, gives "all", the segment of a request without filter.
C29_UnknownKeysIgnored ==
  fn.name = "urlQuery" =>
    LET slots == Slots(fn.urlQuery)
    IN /\ ~fn.hasQuery => fn.urlQuery = <<"all">>
       /\ (\A d \in FnCodes : FnSelected(d) = <<>>) => fn.urlQuery = <<"all">>
       /\ fn.urlQuery # <<"all">> =>
            /\ Len(slots) = Cardinality(FnCodes)
            /\ \A i \in 1..Len(slots) :
                 slots[i] = <<>> \/ \E d \in FnCodes : slots[i] = FnSelected(d)
            /\ \A d \in FnCodes :
                 FnSelected(d) # <<>> => \E i \in 1..Len(slots) : slots[i] = FnSelected(d)

\* a filter whose only key is no dimension of the dataset
C29_Witness ==
  /\ fn.name = "urlQuery" /\ fn.hasQuery
  /\ fn.query = <<Entry("FOO", <<"A">>)>>
  /\ FnCodes # {} /\ "FOO" \notin FnCodes
  /\ fn.urlQuery = <<"all">>

\* C30: formatBfsNumber throws 'BFS number is required' or returns a
\* non-empty trimmed identifier, also for an identifier of blanks only: a
\* request that was not rejected before its first call carries a non-empty
\* identifier, and so does the URL of every call it makes.
C30_IdentifierNeverEmpty ==
  px.op # None =>
    /\ \/ px.pc = "failed" /\ px.calls = <<>>
       \/ px.bfsNum # <<>> /\ px.bfsNum = trim(px.bfsNum)
    /\ px.calls # <<>> =>
         \E bfsNum \in {trim(id) : id \in PxIds} \ {<<>>} :
           px.url = PxUrl(px.lang, bfsNum)

====
